---- MODULE Spec2Model ----
(***************************************************************************)
(* CORD-19 metadata pipeline: analysis.py (load, clean, aggregate, save)   *)
(* and app.py (the Streamlit explorer over the saved cleaned table).       *)
(*                                                                         *)
(* Text is a sequence of one-character strings, so that str.split,         *)
(* str.lower, str.isalnum, date parsing and CSV formatting are computed    *)
(* character by character.  A cell is a tagged record: a str, a NaN, a     *)
(* Timestamp, a NaT, an int or a float.  A table (DataFrame) is a sequence *)
(* of rows, a row a record of cells by column name.  A Series produced by  *)
(* value_counts is a sequence of [key, n] entries in index order.  The     *)
(* authors column and the search box of the Data Sample page, which no     *)
(* summary and no filter reads, are left out.                              *)
(***************************************************************************)
EXTENDS Integers, Sequences, FiniteSets, TLC

VARIABLES pc, df, df_clean, df_reclean, results, csv_file, app, view, tie

vars == <<pc, df, df_clean, df_reclean, results, csv_file, app, view, tie>>

(***************************************************************************)
(* Characters                                                              *)
(***************************************************************************)
Digits == <<"0", "1", "2", "3", "4", "5", "6", "7", "8", "9">>

Upper == <<"A", "B", "C", "D", "E", "F", "G", "H", "I", "J", "K", "L", "M",
           "N", "O", "P", "Q", "R", "S", "T", "U", "V", "W", "X", "Y", "Z">>

Lower == <<"a", "b", "c", "d", "e", "f", "g", "h", "i", "j", "k", "l", "m",
           "n", "o", "p", "q", "r", "s", "t", "u", "v", "w", "x", "y", "z">>

\* the characters of the model's texts in code point order
Alphabet == <<" ", "-">> \o Digits \o Upper \o Lower

Range(s) == {s[i] : i \in DOMAIN s}

IndexOf(s, c) == CHOOSE i \in DOMAIN s : s[i] = c

ord(c) == IndexOf(Alphabet, c)

isdigit(c) == c \in Range(Digits)

isalnum(c) == c \in Range(Digits) \cup Range(Upper) \cup Range(Lower)

isspace(c) == c = " "

lower_char(c) == IF c \in Range(Upper) THEN Lower[IndexOf(Upper, c)] ELSE c

\* str.lower()
lower(s) == [i \in DOMAIN s |-> lower_char(s[i])]

RECURSIVE split(_)
\* str.split(): the maximal runs of non-whitespace characters
split(s) ==
    IF s = <<>> THEN <<>>
    ELSE IF isspace(Head(s)) THEN split(Tail(s))
    ELSE LET stops == {i \in DOMAIN s : isspace(s[i])}
             end == IF stops = {} THEN Len(s) + 1
                    ELSE CHOOSE i \in stops : \A j \in stops : i <= j
         IN <<SubSeq(s, 1, end - 1)>> \o split(SubSeq(s, end, Len(s)))

\* ''.join(c for c in word if c.isalnum())
strip_punctuation(word) == SelectSeq(word, isalnum)

RECURSIVE str_lt(_, _)
\* Python's < on str: lexicographic by code point
str_lt(a, b) ==
    IF b = <<>> THEN FALSE
    ELSE IF a = <<>> THEN TRUE
    ELSE IF Head(a) = Head(b) THEN str_lt(Tail(a), Tail(b))
    ELSE ord(Head(a)) < ord(Head(b))

RECURSIVE StrToInt(_)
\* int("2020"): the value of a run of decimal digits
StrToInt(s) ==
    IF s = <<>> THEN 0
    ELSE 10 * StrToInt(SubSeq(s, 1, Len(s) - 1)) + (IndexOf(Digits, s[Len(s)]) - 1)

RECURSIVE IntToStr(_)
\* str(n) for n >= 0
IntToStr(n) ==
    IF n < 10 THEN <<Digits[n + 1]>>
    ELSE IntToStr(n \div 10) \o <<Digits[(n % 10) + 1]>>

\* zero padding to two digits, as strftime %m and %d
Pad2(n) == IF n < 10 THEN <<"0">> \o IntToStr(n) ELSE IntToStr(n)

(***************************************************************************)
(* Cells                                                                   *)
(***************************************************************************)
Str(s) == [t |-> "str", v |-> s]

NaN == [t |-> "nan"]

NaT == [t |-> "nat"]

Timestamp(y, m, d) == [t |-> "ts", y |-> y, m |-> m, d |-> d]

Int64(n) == [t |-> "int", v |-> n]

Float64(n) == [t |-> "float", v |-> n]

\* Series.isna / notna on one cell
isna(c) == c.t \in {"nan", "nat"}

IsLeap(y) == (y % 4 = 0 /\ y % 100 # 0) \/ y % 400 = 0

DaysIn(y, m) ==
    IF m = 2 THEN (IF IsLeap(y) THEN 29 ELSE 28)
    ELSE IF m \in {4, 6, 9, 11} THEN 30 ELSE 31

\* the ISO form YYYY-MM-DD of a date text; every other text of the model's
\* inputs is one pandas cannot read as a date
ParseDate(s) ==
    IF /\ Len(s) = 10
       /\ s[5] = "-" /\ s[8] = "-"
       /\ \A i \in {1, 2, 3, 4, 6, 7, 9, 10} : isdigit(s[i])
    THEN LET y == StrToInt(SubSeq(s, 1, 4))
             m == StrToInt(SubSeq(s, 6, 7))
             d == StrToInt(SubSeq(s, 9, 10))
         IN IF m \in 1..12 /\ d >= 1 /\ d <= DaysIn(y, m)
            THEN Timestamp(y, m, d) ELSE NaT
    ELSE NaT

\* to_csv of a Timestamp
FormatDate(c) == IntToStr(c.y) \o <<"-">> \o Pad2(c.m) \o <<"-">> \o Pad2(c.d)

\* a to_datetime that reads text only and loses a value that is a date already
to_datetime_text_only(c) == IF c.t = "str" THEN ParseDate(c.v) ELSE NaT

\* pd.to_datetime(..., errors='coerce') on one cell

to_datetime(c) ==
    IF c.t = "ts" THEN c
    ELSE IF c.t = "str" THEN ParseDate(c.v)
    ELSE NaT

(***************************************************************************)
(* Tables                                                                  *)
(***************************************************************************)
\* df[name] = value on one row (adds the column when the row lacks it)
SetCol(r, name, val) ==
    [k \in DOMAIN r \cup {name} |-> IF k = name THEN val ELSE r[k]]

\* df[name] = f(row) for every row
Assign(t, name, f(_)) == [i \in DOMAIN t |-> SetCol(t[i], name, f(t[i]))]

\* .dt.month taken for .dt.year
dt_month(t) ==
    LET month(r) == IF r.publish_time.t = "nat" THEN NaN ELSE Float64(r.publish_time.m)
    IN Assign(t, "year", month)

\* Series.dt.year: int32 when no value is NaT, else float64 with NaN
dt_year(t) ==
    LET anyNaT == \E i \in DOMAIN t : t[i].publish_time.t = "nat"
        year(r) == IF r.publish_time.t = "nat" THEN NaN
                   ELSE IF anyNaT THEN Float64(r.publish_time.y)
                   ELSE Int64(r.publish_time.y)
    IN Assign(t, "year", year)

\* DataFrame.dropna(subset=['year'])
dropna_year(t) == LET has(r) == ~ isna(r.year) IN SelectSeq(t, has)

\* Series.astype(int) on one cell
astype_int(c) == Int64(c.v)

\* Series.fillna(value) on one cell
fillna(c, value) == IF isna(c) THEN Str(value) ELSE c

\* a count of the runs of letters and digits instead of the whitespace tokens
word_count_alnum(x) ==
    Cardinality({i \in DOMAIN x : isalnum(x[i]) /\ (i = 1 \/ ~ isalnum(x[i - 1]))})

\* len(str(x).split())
word_count(x) == Len(split(x))

Unknown == <<"U", "n", "k", "n", "o", "w", "n">>

\* a journal column left as it was
keep_journal(c) == c

\* df_clean['journal'].fillna('Unknown') on one cell
fill_journal(c) == fillna(c, Unknown)

clean_and_prepare_data(table) ==
    LET parse(r) == to_datetime(r.publish_time)
        c1 == Assign(table, "publish_time", parse)
        c2 == dt_year(c1)
        c3 == dropna_year(c2)
        toint(r) == astype_int(r.year)
        c4 == Assign(c3, "year", toint)
        awc(r) == Int64(word_count(fillna(r.abstract, <<>>).v))
        c5 == Assign(c4, "abstract_word_count", awc)
        jr(r) == fill_journal(r.journal)
    IN Assign(c5, "journal", jr)

(***************************************************************************)
(* Series and Counter operations                                           *)
(***************************************************************************)
Reverse(s) == [i \in DOMAIN s |-> s[Len(s) + 1 - i]]

RECURSIVE unique(_)
\* the distinct values of a sequence in order of first appearance
unique(s) ==
    IF s = <<>> THEN <<>>
    ELSE LET front == unique(SubSeq(s, 1, Len(s) - 1))
             last == s[Len(s)]
         IN IF last \in Range(front) THEN front ELSE Append(front, last)

Count(s, k) == Cardinality({i \in DOMAIN s : s[i] = k})

\* a stable sort: s[j] goes before s[i] when it is smaller, or equal and earlier
SortStable(s, lt(_, _)) ==
    LET rank == [i \in DOMAIN s |-> 1 + Cardinality({j \in DOMAIN s :
                        lt(s[j], s[i]) \/ (~ lt(s[i], s[j]) /\ j < i)})]
    IN [p \in DOMAIN s |-> s[CHOOSE i \in DOMAIN s : rank[i] = p]]

more(a, b) == a.n > b.n

fewer(a, b) == a.n < b.n

\* the values of one column, NaN skipped (value_counts and dropna drop them)
Column(table, name) ==
    LET present(r) == ~ isna(r[name])
        rows == SelectSeq(table, present)
    IN [i \in DOMAIN rows |-> rows[i][name].v]

\* value_counts(ascending=True)
value_counts_ascending(values, tieOrder) ==
    LET keys == unique(values)
        entries == [i \in DOMAIN keys |-> [key |-> keys[i], n |-> Count(values, keys[i])]]
    IN SortStable(entries, fewer)

\* Series.value_counts(): one entry per distinct value, by count descending.
\* The order of equal counts is not fixed by pandas: tieOrder is the order the
\* sort leaves them in, first appearance first or last.
value_counts(values, tieOrder) ==
    LET keys0 == unique(values)
        keys == IF tieOrder = "first" THEN keys0 ELSE Reverse(keys0)
        entries == [i \in DOMAIN keys |-> [key |-> keys[i], n |-> Count(values, keys[i])]]
    IN SortStable(entries, more)

\* value_counts() without sort_index()
no_sort_index(series) == series

\* Series.sort_index() on an integer index

sort_index(series) == LET lt(a, b) == a.key < b.key IN SortStable(series, lt)

\* Series.head(n) / DataFrame.head(n)
head(s, n) == SubSeq(s, 1, IF Len(s) < n THEN Len(s) ELSE n)

\* Counter(words).most_common(k): counts in insertion order, the k largest,
\* equal counts in the order first encountered
most_common(words, k) ==
    LET keys == unique(words)
        entries == [i \in DOMAIN keys |-> [key |-> keys[i], n |-> Count(words, keys[i])]]
    IN head(SortStable(entries, more), k)

RECURSIVE Flatten(_)
Flatten(ss) == IF ss = <<>> THEN <<>> ELSE Head(ss) \o Flatten(Tail(ss))

stop_words_batch ==
    {<<"a">>,
     <<"t", "h", "e">>,
     <<"a", "n", "d">>,
     <<"o", "r">>,
     <<"o", "f">>,
     <<"i", "n">>,
     <<"t", "o">>,
     <<"f", "o", "r">>,
     <<"w", "i", "t", "h">>,
     <<"i", "s">>,
     <<"o", "n">>,
     <<"a", "t">>,
     <<"b", "y">>,
     <<"f", "r", "o", "m">>,
     <<"a", "s">>,
     <<"a", "n">>,
     <<"b", "e">>,
     <<"t", "h", "i", "s">>,
     <<"t", "h", "a", "t">>,
     <<"a", "r", "e">>,
     <<"h", "a", "v", "e">>,
     <<"h", "a", "s">>,
     <<"w", "a", "s">>,
     <<"w", "e", "r", "e">>,
     <<"b", "e", "e", "n">>}

stop_words_app ==
    stop_words_batch \cup
    {<<"c", "o", "v", "i", "d">>,
     <<"c", "o", "r", "o", "n", "a", "v", "i", "r", "u", "s">>,
     <<"v", "i", "r", "u", "s">>,
     <<"s", "a", "r", "s">>,
     <<"c", "o", "v">>,
     <<"1", "9">>,
     <<"d", "i", "s", "e", "a", "s", "e">>}

\* the loop over df['title'].dropna() that fills all_words
title_words(table, stop_words) ==
    LET titles == Column(table, "title")
        keep(word) == word # <<>> /\ word \notin stop_words /\ Len(word) > 3
        of(title) == LET words == split(lower(title))
                     IN SelectSeq([i \in DOMAIN words |-> strip_punctuation(words[i])], keep)
    IN Flatten([i \in DOMAIN titles |-> of(titles[i])])

TopJournals == 10

TopSources == 10

TopWords == 15

AppTopJournals == 10

AppTopSources == 8

AppTopWords == 20

NoSeries == <<>>

\* the four summaries of perform_analysis
analysis(table, tieOrder) ==
    [papers_by_year |-> sort_index(value_counts(Column(table, "year"), tieOrder)),
     top_journals |-> head(value_counts(Column(table, "journal"), tieOrder), TopJournals),
     top_sources |-> head(value_counts(Column(table, "source"), tieOrder), TopSources),
     top_words |-> most_common(title_words(table, stop_words_batch), TopWords)]

\* words, counts = zip(*top_words): unpacking nothing into two names raises
\* ValueError
zip_unpack_raises(top_words) == top_words = <<>>

(***************************************************************************)
(* The saved table: DataFrame.to_csv and pd.read_csv                       *)
(***************************************************************************)
\* the text to_csv writes for one cell (a missing value is written empty)
csv_text(c) ==
    IF c.t = "str" THEN c.v
    ELSE IF c.t = "ts" THEN FormatDate(c)
    ELSE IF c.t \in {"int", "float"} THEN IntToStr(c.v)
    ELSE <<>>

to_csv(table) ==
    [i \in DOMAIN table |-> [k \in DOMAIN table[i] |-> csv_text(table[i][k])]]

IsNumber(text) == text # <<>> /\ \A i \in DOMAIN text : isdigit(text[i])

\* read_csv infers one type per column: int64 when every field is a number,
\* float64 when the others are empty, else object; an empty field is NaN
read_csv(rows) ==
    LET texts(k) == {rows[i][k] : i \in DOMAIN rows}
        numeric(k) == /\ \E x \in texts(k) : IsNumber(x)
                      /\ \A x \in texts(k) : x = <<>> \/ IsNumber(x)
        cell(k, x) == IF x = <<>> THEN NaN
                      ELSE IF ~ numeric(k) THEN Str(x)
                      ELSE IF <<>> \in texts(k) THEN Float64(StrToInt(x))
                      ELSE Int64(StrToInt(x))
    IN [i \in DOMAIN rows |-> [k \in DOMAIN rows[i] |-> cell(k, rows[i][k])]]

NoFile == [saved |-> FALSE, rows |-> <<>>]

load_data(file) ==
    LET parse(r) == to_datetime(r.publish_time)
    IN Assign(read_csv(file.rows), "publish_time", parse)

(***************************************************************************)
(* app.py: one run of the script for the current widget values            *)
(***************************************************************************)
SliceJournals == 5

NumRows == 10

Min(S) == CHOOSE x \in S : \A y \in S : x <= y

Max(S) == CHOOSE x \in S : \A y \in S : x >= y

\* sorted(df['journal'].unique())
all_journals(table) == SortStable(unique(Column(table, "journal")), str_lt)

\* all_journals[:5] if len(all_journals) > 5 else all_journals
default_journals(table) ==
    LET all == all_journals(table)
    IN Range(IF Len(all) > SliceJournals THEN SubSeq(all, 1, SliceJournals) ELSE all)

Years(table) == Range(Column(table, "year"))

\* a year mask that leaves out the upper end of the range
filter_below(table, year_range, selected_journals) ==
    LET keep(r) == /\ r.year.v >= year_range[1]
                   /\ r.year.v < year_range[2]
                   /\ r.journal.v \in selected_journals
    IN SelectSeq(table, keep)

\* the rows the three masks of df_filtered keep
filter(table, year_range, selected_journals) ==
    LET keep(r) == /\ r.year.v >= year_range[1]
                   /\ r.year.v <= year_range[2]
                   /\ r.journal.v \in selected_journals
    IN SelectSeq(table, keep)

ts_after(a, b) ==
    LET x == a.publish_time
        y == b.publish_time
    IN \/ x.y > y.y
       \/ x.y = y.y /\ x.m > y.m
       \/ x.y = y.y /\ x.m = y.m /\ x.d > y.d

\* df_filtered.sort_values(by='publish_time', ascending=False)[...].head(10)
sample(table) ==
    LET sorted == head(SortStable(table, ts_after), NumRows)
    IN [i \in DOMAIN sorted |->
          [k \in {"title", "journal", "year", "abstract_word_count"} |-> sorted[i][k]]]

NoView ==
    [page |-> "none", status |-> "none", df_filtered |-> <<>>, filtered_papers |-> 0,
     papers_by_year |-> NoSeries, top_journals |-> NoSeries, top_sources |-> NoSeries,
     top_words |-> NoSeries, df_display |-> <<>>]

\* the script from the sidebar filters to the end of the selected page;
\* status "error" is an uncaught exception, which ends the run
run(table, page, year_range, selected_journals, tieOrder) ==
    LET df_filtered == filter(table, year_range, selected_journals)
        sidebar == [NoView EXCEPT !.page = page, !.df_filtered = df_filtered,
                                  !.filtered_papers = Len(df_filtered)]
    IN IF page = "Dashboard"
       THEN IF df_filtered = <<>>
            \* int(df_filtered['year'].min()) is int(nan): ValueError
            THEN [sidebar EXCEPT !.status = "error"]
            ELSE [sidebar EXCEPT
                    !.status = "ok",
                    !.papers_by_year =
                        sort_index(value_counts(Column(df_filtered, "year"), tieOrder)),
                    !.top_journals =
                        head(value_counts(Column(df_filtered, "journal"), tieOrder),
                             AppTopJournals),
                    !.top_sources =
                        head(value_counts(Column(df_filtered, "source"), tieOrder),
                             AppTopSources)]
       ELSE IF page = "Detailed Analysis"
       THEN [sidebar EXCEPT
               !.status = "ok",
               !.top_words = most_common(title_words(df_filtered, stop_words_app),
                                         AppTopWords),
               !.papers_by_year =
                   sort_index(value_counts(Column(df_filtered, "year"), tieOrder))]
       ELSE [sidebar EXCEPT !.status = "ok", !.df_display = sample(df_filtered)]

NoApp == [df |-> <<>>, page |-> "none", year_range |-> <<0, 0>>, selected_journals |-> {}]

Pages == {"Dashboard", "Detailed Analysis", "Data Sample"}

\* the positions of the year slider
YearRanges(table) ==
    {<<lo, hi>> \in (Min(Years(table))..Max(Years(table)))
                    \X (Min(Years(table))..Max(Years(table))) : lo <= hi}

\* the selections of the journal multiselect that are tried: none, the
\* default, all, one journal
JournalChoices(table) ==
    LET all == Range(all_journals(table))
    IN {{}, default_journals(table), all} \cup {{j} : j \in all}

(***************************************************************************)
(* Input tables                                                            *)
(***************************************************************************)
MaxRows == 2

NumJournals == 11

MaxMult == 2

T_covid == <<"C", "O", "V", "I", "D", "-", "1", "9", " ", "D", "i", "s", "e", "a", "s", "e", " ", "S", "p", "r", "e", "a", "d">>

T_patterns == <<"D", "i", "s", "e", "a", "s", "e", " ", "s", "p", "r", "e", "a", "d", " ", "p", "a", "t", "t", "e", "r", "n", "s">>

T_men == <<"T", "h", "e", " ", "F", "l", "u", " ", "o", "f", " ", "M", "e", "n">>

A_sars == <<"S", "A", "R", "S", "-", "C", "o", "V", "-", "2", " ", "c", "a", "u", "s", "e", "s", " ", "s", "e", "v", "e", "r", "e", " ", "d", "i", "s", "e", "a", "s", "e">>

A_two == <<" ", "t", "w", "o", " ", " ", "w", "o", "r", "d", "s", " ">>

Lancet == <<"L", "a", "n", "c", "e", "t">>

BMJ == <<"B", "M", "J">>

PMC == <<"P", "M", "C">>

WHO == <<"W", "H", "O">>

D_2020 == <<"2", "0", "2", "0", "-", "0", "3", "-", "1", "5">>

D_2019 == <<"2", "0", "1", "9", "-", "1", "2", "-", "3", "1">>

D_text == <<"n", "o", "t", " ", "a", " ", "d", "a", "t", "e">>

D_feb30 == <<"2", "0", "2", "1", "-", "0", "2", "-", "3", "0">>

Row(title, abstract, journal, source, publish_time) ==
    [title |-> title, abstract |-> abstract, journal |-> journal,
     source |-> source, publish_time |-> publish_time]

\* rows of a metadata.csv as read_csv returns them
Papers ==
    {Row(Str(T_covid), Str(A_sars), Str(Lancet), Str(PMC), Str(D_2020)),
     Row(Str(T_patterns), NaN, NaN, Str(WHO), Str(D_2019)),
     Row(NaN, Str(A_two), Str(BMJ), NaN, Str(D_2020)),
     Row(Str(T_men), NaN, Str(BMJ), Str(PMC), Str(D_2019)),
     Row(Str(T_patterns), Str(A_sars), Str(Lancet), Str(WHO), Str(D_text)),
     Row(Str(T_covid), Str(A_two), NaN, Str(PMC), NaN),
     Row(Str(T_men), Str(A_sars), NaN, Str(WHO), Str(D_feb30))}

Tables == UNION {[1..n -> Papers] : n \in 0..MaxRows}

\* a table of NumJournals journals, one paper each, with h - 1 more papers of
\* journal a at its end; journal 1 has no source
JournalRow(i) ==
    Row(Str(<<"S", "p", "r", "e", "a", "d">>), NaN, Str(<<"J", Upper[i]>>),
        IF i = 1 THEN NaN ELSE Str(<<"S", Upper[i]>>), Str(D_2020))

ManyJournals(a, h) ==
    [i \in 1..NumJournals |-> JournalRow(i)] \o [i \in 1..(h - 1) |-> JournalRow(a)]

TopTables == {ManyJournals(a, h) : a \in 1..NumJournals, h \in 1..MaxMult}

(***************************************************************************)
(* The pipeline                                                            *)
(***************************************************************************)
NoResults ==
    [papers_by_year |-> NoSeries, top_journals |-> NoSeries,
     top_sources |-> NoSeries, top_words |-> NoSeries]

Start(inputs) ==
    /\ df \in inputs
    /\ tie \in {"first", "last"}
    /\ pc = "loaded"
    /\ df_clean = <<>>
    /\ df_reclean = <<>>
    /\ results = NoResults
    /\ csv_file = NoFile
    /\ app = NoApp
    /\ view = NoView

\* analysis.py after load_and_explore_data('metadata.csv')
Init == Start(Tables)

InitTop == Start(TopTables)

\* analysis.py:200
Clean ==
    /\ pc = "loaded"
    /\ df_clean' = clean_and_prepare_data(df)
    /\ pc' = "cleaned"
    /\ UNCHANGED <<df, df_reclean, results, csv_file, app, view, tie>>

\* clean_and_prepare_data applied to its own result
Reclean ==
    /\ pc = "cleaned"
    /\ df_reclean' = clean_and_prepare_data(df_clean)
    /\ pc' = "recleaned"
    /\ UNCHANGED <<df, df_clean, results, csv_file, app, view, tie>>

\* analysis.py:203; an exception ends the script before to_csv.  The charts
\* are drawn from the summaries and are not part of the state.
PerformAnalysis ==
    /\ pc = "cleaned"
    /\ LET r == analysis(df_clean, tie)
       IN IF zip_unpack_raises(r.top_words)
          THEN pc' = "raised" /\ UNCHANGED results
          ELSE pc' = "analysed" /\ results' = r
    /\ UNCHANGED <<df, df_clean, df_reclean, csv_file, app, view, tie>>

\* analysis.py:206
SaveCsv ==
    /\ pc = "analysed"
    /\ csv_file' = [saved |-> TRUE, rows |-> to_csv(df_clean)]
    /\ pc' = "saved"
    /\ UNCHANGED <<df, df_clean, df_reclean, results, app, view, tie>>

\* the first run of app.py: load_data, the widgets at their defaults, the
\* Dashboard page; without the file st.error and nothing more
LoadData ==
    /\ pc \in {"saved", "raised"}
    /\ IF csv_file.saved
       THEN LET table == load_data(csv_file)
                year_range == <<Min(Years(table)), Max(Years(table))>>
                selected == default_journals(table)
            IN /\ app' = [df |-> table, page |-> "Dashboard",
                          year_range |-> year_range, selected_journals |-> selected]
               /\ view' = run(table, "Dashboard", year_range, selected, tie)
               /\ pc' = "app"
       ELSE pc' = "nofile" /\ UNCHANGED <<app, view>>
    /\ UNCHANGED <<df, df_clean, df_reclean, results, csv_file, tie>>

\* a widget changes and Streamlit runs app.py again over the cached table
Rerun(widgets) ==
    /\ app' = widgets
    /\ view' = run(app.df, widgets.page, widgets.year_range,
                   widgets.selected_journals, tie)
    /\ UNCHANGED <<pc, df, df_clean, df_reclean, results, csv_file, tie>>

\* st.sidebar.radio
SelectPage ==
    /\ pc = "app"
    /\ \E page \in Pages : Rerun([app EXCEPT !.page = page])

\* st.sidebar.slider
SetYearRange ==
    /\ pc = "app"
    /\ \E year_range \in YearRanges(app.df) :
         Rerun([app EXCEPT !.year_range = year_range])

\* st.sidebar.multiselect
SelectJournals ==
    /\ pc = "app"
    /\ \E selected \in JournalChoices(app.df) :
         Rerun([app EXCEPT !.selected_journals = selected])

Next ==
    \/ Clean
    \/ Reclean
    \/ PerformAnalysis
    \/ SaveCsv
    \/ LoadData
    \/ SelectPage
    \/ SetYearRange
    \/ SelectJournals

Spec == Init /\ [][Next]_vars

SpecTop == InitTop /\ [][Next]_vars

(***************************************************************************)
(* Properties of the cleaning step                                         *)
(***************************************************************************)
Cleaned == pc # "loaded"

\* the publish_time texts of Papers that are dates, with their calendar years
DateTexts == {D_2020, D_2019}

YearOf(text) == IF text = D_2020 THEN 2020 ELSE 2019

IsDate(c) == c.t = "str" /\ c.v \in DateTexts

\* the positions of the input rows whose publish_time is a date, ascending
Survivors ==
    LET dated(i) == IsDate(df[i].publish_time)
    IN SelectSeq([i \in DOMAIN df |-> i], dated)

\* C1: every record of the cleaned table has an integer year that is not
\* absent and a journal that is not absent, "Unknown" where the input had none
C1_YearAndJournalPresent ==
    Cleaned =>
        /\ \A i \in DOMAIN df_clean :
              /\ df_clean[i].year.t = "int"
              /\ df_clean[i].journal.t = "str"
        /\ Len(df_clean) = Len(Survivors)
        /\ \A k \in DOMAIN Survivors :
              isna(df[Survivors[k]].journal) => df_clean[k].journal = Str(Unknown)

C1_Witness ==
    /\ pc = "cleaned"
    /\ Len(df_clean) = 1 /\ Len(df) = 2
    /\ isna(df[1].journal) /\ IsDate(df[1].publish_time)
    /\ df_clean[1].journal = Str(Unknown)

\* C2: the cleaned records are the input records whose publish_time is a date,
\* in the input's order, each with the calendar year of its publish_time
C2_SurvivorsInOrder ==
    Cleaned =>
        /\ Len(df_clean) = Len(Survivors)
        /\ \A k \in DOMAIN Survivors :
              LET in == df[Survivors[k]]
                  out == df_clean[k]
              IN /\ out.title = in.title
                 /\ out.abstract = in.abstract
                 /\ out.source = in.source
                 /\ ~ isna(in.journal) => out.journal = in.journal
                 /\ out.year = Int64(YearOf(in.publish_time.v))

C2_Witness ==
    /\ pc = "cleaned"
    /\ Len(df) = 2
    /\ df[1].publish_time = Str(D_text)
    /\ df[2].publish_time = Str(D_2020)
    /\ Len(df_clean) = 1
    /\ df_clean[1].year = Int64(2020)
    /\ df_clean[1].title = df[2].title

\* C3: cleaning a cleaned table gives the same table again
C3_CleanIdempotent == pc = "recleaned" => df_reclean = df_clean

C3_Witness ==
    /\ pc = "recleaned"
    /\ Len(df) = 2 /\ Len(df_clean) = 1
    /\ df_reclean = df_clean
    /\ df_clean[1].journal = Str(Unknown)

\* the number of whitespace-separated tokens: the places where a token starts
Tokens(text) ==
    Cardinality({i \in DOMAIN text :
                    ~ isspace(text[i]) /\ (i = 1 \/ isspace(text[i - 1]))})

TokensOf(c) == IF isna(c) THEN 0 ELSE Tokens(c.v)

\* C7 as stated: abstract_word_count is the number of whitespace-separated
\* tokens of the abstract, 0 for an absent one, and 6 for the abstract
\* "SARS-CoV-2 causes severe disease"
C7_WordCountSix ==
    Cleaned =>
        \A i \in DOMAIN df_clean :
            /\ df_clean[i].abstract_word_count = Int64(TokensOf(df_clean[i].abstract))
            /\ df_clean[i].abstract = Str(A_sars) => df_clean[i].abstract_word_count.v = 6

\* C7 amended: abstract_word_count is the number of whitespace-separated
\* tokens of the abstract, 0 for an absent one, and 4 for the abstract
\* "SARS-CoV-2 causes severe disease"
C7_WordCountFour ==
    Cleaned =>
        \A i \in DOMAIN df_clean :
            /\ df_clean[i].abstract_word_count = Int64(TokensOf(df_clean[i].abstract))
            /\ isna(df_clean[i].abstract) => df_clean[i].abstract_word_count.v = 0
            /\ df_clean[i].abstract = Str(A_sars) => df_clean[i].abstract_word_count.v = 4

C7_Witness ==
    /\ pc = "cleaned"
    /\ Len(df_clean) = 2
    /\ df_clean[1].abstract = Str(A_sars) /\ df_clean[1].abstract_word_count.v = 4
    /\ isna(df_clean[2].abstract) /\ df_clean[2].abstract_word_count.v = 0

(***************************************************************************)
(* Properties of the summaries                                             *)
(***************************************************************************)
\* perform_analysis has returned its summaries
Analysed == pc \in {"analysed", "saved", "app"}

\* a page of the app has drawn its year counts
YearsDrawn == view.status = "ok" /\ view.page \in {"Dashboard", "Detailed Analysis"}

RECURSIVE Total(_)
Total(series) == IF series = <<>> THEN 0 ELSE Head(series).n + Total(Tail(series))

Keys(series) == {series[i].key : i \in DOMAIN series}

YearCountsOf(series, table) ==
    /\ \A i \in DOMAIN series : i > 1 => series[i - 1].key < series[i].key
    /\ Keys(series) = {table[i].year.v : i \in DOMAIN table}
    /\ \A i \in DOMAIN series :
          series[i].n = Cardinality({j \in DOMAIN table : table[j].year.v = series[i].key})
    /\ Total(series) = Len(table)

\* C4: the year-count summary lists each distinct year once, in ascending
\* year order, and its counts add up to the number of records
C4_YearCounts ==
    /\ Analysed => YearCountsOf(results.papers_by_year, df_clean)
    /\ YearsDrawn => YearCountsOf(view.papers_by_year, view.df_filtered)

C4_Witness ==
    /\ pc = "app" /\ YearsDrawn
    /\ Len(df_clean) = 2
    /\ df_clean[1].year.v = 2020 /\ df_clean[2].year.v = 2019
    /\ Len(results.papers_by_year) = 2
    /\ Len(view.papers_by_year) = 2

\* how often a value that is not absent occurs in a column
Occurs(table, name, key) ==
    Cardinality({i \in DOMAIN table : ~ isna(table[i][name]) /\ table[i][name].v = key})

Present(table, name) ==
    {table[i][name].v : i \in {j \in DOMAIN table : ~ isna(table[j][name])}}

TopOf(series, table, name, N) ==
    /\ Len(series) <= N
    /\ \A i \in DOMAIN series :
          /\ series[i].n = Occurs(table, name, series[i].key)
          /\ series[i].n > 0
          /\ i > 1 => series[i - 1].n >= series[i].n
          /\ \A j \in DOMAIN series : j # i => series[j].key # series[i].key
    /\ \A key \in Present(table, name) \ Keys(series) :
          /\ Len(series) = N
          /\ \A i \in DOMAIN series : series[i].n >= Occurs(table, name, key)

\* C5: the top journals and top sources (10 and 10 in the batch path, 10 and 8
\* in the app) have at most N entries, by count descending, and none of their
\* entries has a smaller count than a journal or source left out
C5_TopN ==
    /\ Analysed =>
          /\ TopOf(results.top_journals, df_clean, "journal", 10)
          /\ TopOf(results.top_sources, df_clean, "source", 10)
    /\ (view.status = "ok" /\ view.page = "Dashboard") =>
          /\ TopOf(view.top_journals, view.df_filtered, "journal", 10)
          /\ TopOf(view.top_sources, view.df_filtered, "source", 8)

C5_Witness ==
    /\ pc = "app" /\ view.status = "ok" /\ view.page = "Dashboard"
    /\ Cardinality(Present(view.df_filtered, "journal")) > 10
    /\ Cardinality(Present(view.df_filtered, "source")) > 8
    /\ Len(view.top_journals) = 10 /\ view.top_journals[1].n = 2
    /\ Len(view.top_sources) = 8
    /\ Len(results.top_journals) = 10 /\ results.top_journals[1].n = 2

W_spread == <<"s", "p", "r", "e", "a", "d">>

W_patterns == <<"p", "a", "t", "t", "e", "r", "n", "s">>

W_covid19 == <<"c", "o", "v", "i", "d", "1", "9">>

TitlesOf(table) == [i \in DOMAIN table |-> table[i].title]

\* C6: the app's title words for the titles "COVID-19 Disease Spread" and
\* "Disease spread patterns" are spread with count 2 and patterns with count 1
\* and no other
C6_TwoWords ==
    (/\ view.status = "ok" /\ view.page = "Detailed Analysis"
     /\ TitlesOf(view.df_filtered) = <<Str(T_covid), Str(T_patterns)>>)
    => view.top_words = <<[key |-> W_spread, n |-> 2], [key |-> W_patterns, n |-> 1]>>

\* what app.py counts for these two titles
C6_ThreeWords ==
    (/\ view.status = "ok" /\ view.page = "Detailed Analysis"
     /\ TitlesOf(view.df_filtered) = <<Str(T_covid), Str(T_patterns)>>)
    => view.top_words = <<[key |-> W_spread, n |-> 2], [key |-> W_covid19, n |-> 1],
                          [key |-> W_patterns, n |-> 1]>>

\* C8: perform_analysis does not raise when the cleaned table is empty or no
\* title is present; it returns four empty or degraded summaries
C8_NeverRaises ==
    (/\ pc \notin {"loaded", "cleaned", "recleaned"}
     /\ \A i \in DOMAIN df_clean : isna(df_clean[i].title))
    => pc # "raised"

(***************************************************************************)
(* Properties of the app's filters and pages                               *)
(***************************************************************************)
Matches(r) ==
    /\ app.year_range[1] <= r.year.v
    /\ r.year.v <= app.year_range[2]
    /\ r.journal.v \in app.selected_journals

Copies(table, r) == Cardinality({i \in DOMAIN table : table[i] = r})

\* C9: the filtered view holds exactly the records of the loaded table with
\* lo <= year <= hi and journal in the selection, and "Filtered Papers" is the
\* number of records of that view
C9_FilteredView ==
    pc = "app" =>
        /\ \A i \in DOMAIN view.df_filtered : Matches(view.df_filtered[i])
        /\ \A i \in DOMAIN app.df :
              Copies(view.df_filtered, app.df[i])
                  = (IF Matches(app.df[i]) THEN Copies(app.df, app.df[i]) ELSE 0)
        /\ view.filtered_papers = Len(view.df_filtered)

C9_Witness ==
    /\ pc = "app"
    /\ app.year_range = <<2020, 2020>>
    /\ Len(app.df) = 2
    /\ app.df[1].year.v = 2019 /\ app.df[2].year.v = 2020
    /\ app.df[1].journal.v \in app.selected_journals
    /\ app.df[2].journal.v \in app.selected_journals
    /\ view.df_filtered = <<app.df[2]>>
    /\ view.filtered_papers = 1

\* C10: every page renders to its end for every filter setting
C10_PagesRender == view.status # "error"

====
